---- MODULE Spec2Model ----
(***************************************************************************)
(* Model of bert_finetuner_splitset.py: the training loop of main with     *)
(* periodic evaluation and patience-based early stopping, the data         *)
(* preparation of main (stratified split, label list, one-hot label        *)
(* vectors) and the Markdown export routines.                              *)
(***************************************************************************)
EXTENDS Integers, Sequences, FiniteSets, TLC

\* ------------------------------------------------------------------ bounds

\* The training loop is explored up to this value of the step counter.
MaxStep == 650

\* ------------------------------------------------------- program constants

eval_every == 100

patience == 3

batch_size == 24

TopRows == 10

None == "None"

\* len(train_data) as the loop sees it (inputs of the exploration).
TrainSizes == {168, 2400, 3600}

\* len(eval_texts) as the loop sees it (inputs of the exploration).
EvalSizes == {1, 2}

\* output_dir as given on the command line.
OutputDirs == {None, "out"}

VARIABLES
    pc,            \* position of main in the training part
    output_dir,    \* the -o option, None when absent
    train_len,     \* len(train_data)
    eval_len,      \* len(eval_texts)
    results,       \* list of (textcat_acc, step, epoch)
    epoch,
    step,
    batches_left,  \* batches of the current epoch the for loop still holds
    nupdates,      \* calls of nlp.update that returned (optimizer steps)
    evaluated_at,  \* nupdates at the time each entry of results was measured
    saved,         \* nlp.to_disk(output_dir) was called
    \* data preparation of main, lines 81-123
    dpc,                   \* position of main in the data preparation
    df_train_set,          \* rows (label, article) read from data/articles.csv
    train_label_list,      \* df_train_set['label'].unique().tolist()
    train_dataframe,
    eval_dataframe_first,
    eval_dataframe,
    dev_dataframe,
    files,                 \* the files written so far, by name
    loaded,                \* what load_data returned
    \* one call of a helper function on arguments of its own
    called,                \* the function that was called, "none" before
    arg_rows,              \* its list of (label, text) rows
    arg_labels,            \* its label_list
    ret                    \* what it returned or wrote

loopVars == <<pc, output_dir, train_len, eval_len, results, epoch, step,
              batches_left, nupdates, evaluated_at, saved>>

dataVars == <<dpc, df_train_set, train_label_list, train_dataframe,
              eval_dataframe_first, eval_dataframe, dev_dataframe, files,
              loaded>>

fnVars == <<called, arg_rows, arg_labels, ret>>

vars == <<loopVars, dataVars, fnVars>>

\* ---------------------------------------------------------------- helpers

Range(s) == {s[i] : i \in DOMAIN s}

\* minibatch(train_data, size=batch_size): the number of batches it yields.
minibatch(n, size) == (n + size - 1) \div size

\* Python's order on (score, step, epoch) tuples: lexicographic.
TupleLess(a, b) ==
    \/ a[1] < b[1]
    \/ a[1] = b[1] /\ a[2] < b[2]
    \/ a[1] = b[1] /\ a[2] = b[2] /\ a[3] < b[3]

\* max(results) on a non-empty list of tuples.
max(rs) == CHOOSE r \in Range(rs) : \A q \in Range(rs) : q = r \/ TupleLess(q, r)

\* sorted(results, reverse=True)
RECURSIVE SortedDesc(_)
SortedDesc(S) ==
    IF S = {} THEN <<>>
    ELSE LET m == CHOOSE r \in S : \A q \in S : q = r \/ TupleLess(q, r)
         IN  <<m>> \o SortedDesc(S \ {m})

sorted_reverse(rs) == SortedDesc(Range(rs))

Head10(s) == SubSeq(s, 1, IF Len(s) < TopRows THEN Len(s) ELSE TopRows)

\* line 164: if step and (step % eval_every) == 0
EvalDueNoZeroGuard(s) == (s % eval_every) = 0

EvalDue(s) == s # 0 /\ (s % eval_every) = 0

\* line 183: ((step - best_step) // eval_every) >= patience
ShouldStopStrict(s, best_step) == ((s - best_step) \div eval_every) > patience

ShouldStopEarly(s, best_step) == ((s - best_step) \div eval_every) >= patience - 1

ShouldStop(s, best_step) == ((s - best_step) \div eval_every) >= patience

\* line 194: if output_dir is not None
WantSaveAlways(dir) == TRUE

WantSave(dir) == dir # None

\* evaluate_multiclass: the scores it can return for n texts, one for every
\* number of correct predictions; textcat_acc is float(correct) / len(texts),
\* kept here in units of 1/n.
evaluate_multiclass(n) ==
    {[textcat_acc |-> c, textcat_cor |-> c, textcat_wrg |-> n - c] : c \in 0..n}

\* ---------------------------------------------------------- training loop

\* The state of the part of the program a specification does not run.
LoopIdle ==
    /\ pc = "idle"
    /\ output_dir = None
    /\ train_len = 0
    /\ eval_len = 0
    /\ results = <<>>
    /\ epoch = 0
    /\ step = 0
    /\ batches_left = 0
    /\ nupdates = 0
    /\ evaluated_at = <<>>
    /\ saved = FALSE

DataIdle ==
    /\ dpc = "idle"
    /\ df_train_set = <<>>
    /\ train_label_list = <<>>
    /\ train_dataframe = <<>>
    /\ eval_dataframe_first = <<>>
    /\ eval_dataframe = <<>>
    /\ dev_dataframe = <<>>
    /\ files = <<>>
    /\ loaded = <<>>

FnIdle ==
    /\ called = "idle"
    /\ arg_rows = <<>>
    /\ arg_labels = <<>>
    /\ ret = <<>>

\* lines 148-158: the state in which the first epoch of the while loop of main
\* starts, its batches made.
Init ==
    /\ DataIdle
    /\ FnIdle
    /\ pc = "batch"
    /\ output_dir \in OutputDirs
    /\ train_len \in TrainSizes
    /\ eval_len \in EvalSizes
    /\ results = <<>>
    /\ epoch = 0
    /\ step = 0
    /\ batches_left = minibatch(train_len, batch_size)
    /\ nupdates = 0
    /\ evaluated_at = <<>>
    /\ saved = FALSE

\* lines 159-163 and 178, the condition of line 164 false: one batch is
\* taken, nlp.update returns and the step counter advances.
BatchStep ==
    /\ UNCHANGED <<dataVars, fnVars>>
    /\ pc = "batch"
    /\ batches_left > 0
    /\ step < MaxStep
    /\ ~EvalDue(step)
    /\ nupdates' = nupdates + 1
    /\ step' = step + 1
    /\ batches_left' = batches_left - 1
    /\ UNCHANGED <<pc, output_dir, train_len, eval_len, results, epoch,
                   evaluated_at, saved>>

\* lines 159-178, the condition of line 164 true: after nlp.update the eval
\* partition is scored and the result recorded under the current step.
BatchEvaluate ==
    /\ UNCHANGED <<dataVars, fnVars>>
    /\ pc = "batch"
    /\ batches_left > 0
    /\ step < MaxStep
    /\ EvalDue(step)
    /\ nupdates' = nupdates + 1
    /\ \E scores \in evaluate_multiclass(eval_len) :
          results' = Append(results, <<scores.textcat_acc, step, epoch>>)
    /\ evaluated_at' = Append(evaluated_at, nupdates')
    /\ step' = step + 1
    /\ batches_left' = batches_left - 1
    /\ UNCHANGED <<pc, output_dir, train_len, eval_len, epoch, saved>>

\* line 162: nlp.update raises; the exception leaves main.
UpdateRaises ==
    /\ UNCHANGED <<dataVars, fnVars>>
    /\ pc = "batch"
    /\ batches_left > 0
    /\ step < MaxStep
    /\ pc' = "crashed"
    /\ UNCHANGED <<output_dir, train_len, eval_len, results, epoch, step,
                   batches_left, nupdates, evaluated_at, saved>>

\* line 167: evaluate_multiclass (nlp.pipe) raises after the update of the
\* batch; the exception leaves main.
EvaluateRaises ==
    /\ UNCHANGED <<dataVars, fnVars>>
    /\ pc = "batch"
    /\ batches_left > 0
    /\ step < MaxStep
    /\ EvalDue(step)
    /\ nupdates' = nupdates + 1
    /\ pc' = "crashed"
    /\ UNCHANGED <<output_dir, train_len, eval_len, results, epoch, step,
                   batches_left, evaluated_at, saved>>

\* lines 179-184 and back to 156-158: the for loop is exhausted.
EpochEnd ==
    /\ UNCHANGED <<dataVars, fnVars>>
    /\ pc = "batch"
    /\ batches_left = 0
    /\ epoch' = epoch + 1
    /\ IF results # <<>> /\ ShouldStop(step, max(results)[2])
       THEN /\ pc' = "report"
            /\ batches_left' = batches_left
       ELSE /\ pc' = "batch"
            /\ batches_left' = minibatch(train_len, batch_size)
    /\ UNCHANGED <<output_dir, train_len, eval_len, results, step, nupdates,
                   evaluated_at, saved>>

\* lines 186-192: the table of the best checkpoints; the for statement
\* rebinds step and epoch to the last row printed.
Report ==
    /\ UNCHANGED <<dataVars, fnVars>>
    /\ pc = "report"
    /\ LET rows == Head10(sorted_reverse(results))
       IN  IF rows = <<>>
           THEN UNCHANGED <<step, epoch>>
           ELSE /\ step' = rows[Len(rows)][2]
                /\ epoch' = rows[Len(rows)][3]
    /\ pc' = "save"
    /\ UNCHANGED <<output_dir, train_len, eval_len, results, batches_left, nupdates,
                   evaluated_at, saved>>

\* lines 194-196
Save ==
    /\ UNCHANGED <<dataVars, fnVars>>
    /\ pc = "save"
    /\ saved' = WantSave(output_dir)
    /\ pc' = "done"
    /\ UNCHANGED <<output_dir, train_len, eval_len, results, epoch, step, batches_left,
                   nupdates, evaluated_at>>

Next ==
    \/ BatchStep
    \/ BatchEvaluate
    \/ UpdateRaises
    \/ EvaluateRaises
    \/ EpochEnd
    \/ Report
    \/ Save

Spec == Init /\ [][Next]_vars

\* The loop under fairness: the interpreter keeps executing main while a
\* statement is left. Explored for one eval partition size and with output_dir
\* given.
FairInit == Init /\ eval_len = 1 /\ output_dir # None

FairSpec == FairInit /\ [][Next]_vars /\ WF_vars(Next)

\* ------------------------------------------------- data preparation: model

\* Bound on the number of rows of data/articles.csv.
MaxRows == 9

\* The labels the rows of the explored datasets carry.
Labels == {"a", "b"}

\* The article of row i; the rows of a dataset are pairwise distinct.
Article(i) == "t" \o ToString(i)

\* The datasets explored for pd.read_csv: up to MaxRows rows (label, article),
\* the first m rows of one label and the others of a second one (or the same).
Datasets ==
    UNION {UNION {{[i \in 1..n |-> <<IF i <= m THEN l1 ELSE l2, Article(i)>>] :
                      l1 \in Labels, l2 \in Labels} : m \in 0..n} :
              n \in 0..MaxRows}

\* pandas unique(): the distinct values in order of first occurrence.
RECURSIVE unique(_)
unique(col) ==
    IF col = <<>> THEN <<>>
    ELSE LET u == unique(SubSeq(col, 1, Len(col) - 1))
         IN  IF col[Len(col)] \in Range(u) THEN u ELSE Append(u, col[Len(col)])

\* df['label']
LabelColumn(df) == [i \in DOMAIN df |-> df[i][1]]

Classes(df) == {df[i][1] : i \in DOMAIN df}

ClassCount(df, l) == Cardinality({i \in DOMAIN df : df[i][1] = l})

\* sklearn: n_test = ceil(test_size * n_samples), test_size given in tenths.
NumTest(n, tenths) == (n * tenths + 9) \div 10

NumTrain(n, tenths) == n - NumTest(n, tenths)

\* train_test_split(df, test_size=..., stratify=df['label']) raises
\* ValueError: no row, an empty train part, a class of a single member, or
\* fewer train or test rows than classes.
SplitRaises(df, tenths) ==
    LET n == Len(df)
    IN  \/ n = 0
        \/ NumTrain(n, tenths) = 0
        \/ \E l \in Classes(df) : ClassCount(df, l) < 2
        \/ NumTrain(n, tenths) < Cardinality(Classes(df))
        \/ NumTest(n, tenths) < Cardinality(Classes(df))

\* The per-class numbers of train rows a split without stratify= can draw:
\* any numbers that add up to the size of the train part.
RECURSIVE SumOver(_, _)
SumOver(f, S) ==
    IF S = {} THEN 0
    ELSE LET x == CHOOSE y \in S : TRUE IN f[x] + SumOver(f, S \ {x})

UnstratifiedAllocations(df, n_draws) ==
    {alloc \in [Classes(df) -> 0..Len(df)] :
        /\ \A l \in Classes(df) : alloc[l] <= ClassCount(df, l)
        /\ SumOver(alloc, Classes(df)) = n_draws}

\* The per-class numbers of train rows of a stratified split (sklearn's
\* _approximate_mode): class_count * n_draws / n rounded down, the rows still
\* missing given to the classes of largest remainder, ties drawn at random.
StratifiedAllocations(df, n_draws) ==
    LET n == Len(df)
        floored(l) == (ClassCount(df, l) * n_draws) \div n
        remainder(l) == (ClassCount(df, l) * n_draws) % n
    IN  {alloc \in [Classes(df) -> 0..n] :
            /\ \A l \in Classes(df) : alloc[l] \in {floored(l), floored(l) + 1}
            /\ SumOver(alloc, Classes(df)) = n_draws
            /\ \A l, m \in Classes(df) :
                  (alloc[l] = floored(l) + 1 /\ alloc[m] = floored(m))
                      => remainder(l) >= remainder(m)}

\* The sets of row numbers a stratified split can put into the train part.
TrainIndexSets(df, tenths) ==
    LET allocs == StratifiedAllocations(df, NumTrain(Len(df), tenths))
        label == [i \in DOMAIN df |-> df[i][1]]
    IN  {S \in SUBSET DOMAIN df :
            \E alloc \in allocs :
                \A l \in DOMAIN alloc :
                    Cardinality({i \in S : label[i] = l}) = alloc[l]}

\* The elements of a set of numbers in increasing order.
RECURSIVE Increasing(_)
Increasing(S) ==
    IF S = {} THEN <<>>
    ELSE LET m == CHOOSE x \in S : \A y \in S : y <= x
         IN  Append(Increasing(S \ {m}), m)

Reverse(s) == [i \in DOMAIN s |-> s[Len(s) + 1 - i]]

\* The shuffled orders explored for the rows of a split: of the permutations
\* sklearn can draw, the increasing and the decreasing one.
Shuffles(S) == {Increasing(S), Reverse(Increasing(S))}

Take(df, idx) == [i \in DOMAIN idx |-> df[idx[i]]]

\* train_test_split(df, test_size=tenths/10, stratify=df['label']) when it
\* does not raise: the pairs (train part, test part) it can return.
train_test_split(df, tenths) ==
    {<<Take(df, tr), Take(df, te)>> :
        <<tr, te>> \in UNION {Shuffles(S) \X Shuffles(DOMAIN df \ S) :
                                S \in TrainIndexSets(df, tenths)}}

\* line 260: the dict of one record, one key per entry of label_list.
OneHotSparse(y, label_list) == [i \in {y} |-> 1]

OneHot(y, label_list) == [i \in Range(label_list) |-> IF i = y THEN 1 ELSE 0]

\* _prepare_partition with preprocess=False: zip(*[]) leaves nothing to unpack
\* and raises ValueError; otherwise (texts, cats).
_prepare_partition(text_label_tuples, label_list) ==
    IF text_label_tuples = <<>>
    THEN [exc |-> "ValueError", texts |-> <<>>, cats |-> <<>>]
    ELSE [exc |-> None,
          texts |-> [i \in DOMAIN text_label_tuples |-> text_label_tuples[i][2]],
          cats |-> [i \in DOMAIN text_label_tuples |->
                       OneHot(text_label_tuples[i][1], label_list)]]

\* load_data: the train and the eval partition prepared in turn.
load_data(train_df, eval_df, label_list) ==
    LET tr == _prepare_partition(train_df, label_list)
        ev == _prepare_partition(eval_df, label_list)
    IN  [exc |-> IF tr.exc # None THEN tr.exc ELSE ev.exc,
         train |-> <<tr.texts, tr.cats>>,
         eval |-> <<ev.texts, ev.cats>>]

\* find_max_prob_cat: the key at np.argmax of the values, the first of the
\* largest ones; keys and probs are given in the order of the dict.
find_max_prob_cat(keys, cats_probs) ==
    keys[CHOOSE i \in DOMAIN keys :
            /\ \A j \in DOMAIN keys : cats_probs[keys[j]] <= cats_probs[keys[i]]
            /\ \A j \in 1..(i - 1) : cats_probs[keys[j]] < cats_probs[keys[i]]]

\* lines 304-311: label_samples after the loop over the rows, a dict in
\* insertion order, kept as a list of (label, articles).
RECURSIVE GroupByLabel(_)
GroupByLabelFirstOnly(rows) ==
    IF rows = <<>> THEN <<>>
    ELSE LET g == GroupByLabel(SubSeq(rows, 1, Len(rows) - 1))
             entry == rows[Len(rows)]
         IN  IF \E k \in DOMAIN g : g[k][1] = entry[1]
             THEN g
             ELSE Append(g, <<entry[1], <<entry[2]>>>>)

GroupByLabel(rows) ==
    IF rows = <<>> THEN <<>>
    ELSE LET g == GroupByLabel(SubSeq(rows, 1, Len(rows) - 1))
             entry == rows[Len(rows)]
         IN  IF \E k \in DOMAIN g : g[k][1] = entry[1]
             THEN [k \in DOMAIN g |->
                      IF g[k][1] = entry[1]
                      THEN <<g[k][1], Append(g[k][2], entry[2])>>
                      ELSE g[k]]
             ELSE Append(g, <<entry[1], <<entry[2]>>>>)

\* lines 312-315: the lines written for label_samples, one header per label
\* and one bullet per article.
RECURSIVE WriteIntents(_)
WriteIntents(label_samples) ==
    IF label_samples = <<>> THEN <<>>
    ELSE LET label == Head(label_samples)[1]
             articles == Head(label_samples)[2]
         IN  <<"## intent:" \o label>>
                 \o [i \in DOMAIN articles |-> "- " \o articles[i]]
                 \o WriteIntents(Tail(label_samples))

\* The content of data/train.md, data/test.md and data/dev.md.
create_rasa_training_set(df) == WriteIntents(GroupByLabel(df))

create_rasa_test_set(df) == WriteIntents(GroupByLabel(df))

create_rasa_dev_set(df) == WriteIntents(GroupByLabel(df))

\* lines 81-82: the state after the dataset was read and its labels listed.
DataInit ==
    /\ LoopIdle
    /\ FnIdle
    /\ dpc = "split"
    /\ df_train_set \in Datasets
    /\ train_label_list = unique(LabelColumn(df_train_set))
    /\ train_dataframe = <<>>
    /\ eval_dataframe_first = <<>>
    /\ eval_dataframe = <<>>
    /\ dev_dataframe = <<>>
    /\ files = <<>>
    /\ loaded = <<>>

\* line 88: the 60/40 split.
SplitTrain ==
    /\ UNCHANGED <<loopVars, fnVars>>
    /\ dpc = "split"
    /\ ~SplitRaises(df_train_set, 4)
    /\ \E parts \in train_test_split(df_train_set, 4) :
          /\ train_dataframe' = parts[1]
          /\ eval_dataframe_first' = parts[2]
    /\ dpc' = "split_eval"
    /\ UNCHANGED <<df_train_set, train_label_list, eval_dataframe,
                   dev_dataframe, files, loaded>>

\* line 88: train_test_split raises; the exception leaves main.
SplitTrainRaises ==
    /\ UNCHANGED <<loopVars, fnVars>>
    /\ dpc = "split"
    /\ SplitRaises(df_train_set, 4)
    /\ dpc' = "failed"
    /\ UNCHANGED <<df_train_set, train_label_list, train_dataframe,
                   eval_dataframe_first, eval_dataframe, dev_dataframe, files,
                   loaded>>

\* line 89: the 50/50 split of the remainder.
SplitEval ==
    /\ UNCHANGED <<loopVars, fnVars>>
    /\ dpc = "split_eval"
    /\ ~SplitRaises(eval_dataframe_first, 5)
    /\ \E parts \in train_test_split(eval_dataframe_first, 5) :
          /\ eval_dataframe' = parts[1]
          /\ dev_dataframe' = parts[2]
    /\ dpc' = "persist"
    /\ UNCHANGED <<df_train_set, train_label_list, train_dataframe,
                   eval_dataframe_first, files, loaded>>

\* line 89: train_test_split raises; the exception leaves main.
SplitEvalRaises ==
    /\ UNCHANGED <<loopVars, fnVars>>
    /\ dpc = "split_eval"
    /\ SplitRaises(eval_dataframe_first, 5)
    /\ dpc' = "failed"
    /\ UNCHANGED <<df_train_set, train_label_list, train_dataframe,
                   eval_dataframe_first, eval_dataframe, dev_dataframe, files,
                   loaded>>

\* lines 91-123: the partitions and the label list are written, then
\* load_data builds the texts and the one-hot dicts of train and eval.
PersistAndLoad ==
    /\ UNCHANGED <<loopVars, fnVars>>
    /\ dpc = "persist"
    /\ files' = [name \in {"data/train.json", "data/test.json",
                           "data/dev.json", "data/train.md", "data/test.md",
                           "data/dev.md", "data/labels.json"} |->
                    CASE name = "data/train.json" -> train_dataframe
                      [] name = "data/test.json" -> eval_dataframe
                      [] name = "data/dev.json" -> dev_dataframe
                      [] name = "data/train.md" ->
                            create_rasa_training_set(train_dataframe)
                      [] name = "data/test.md" ->
                            create_rasa_test_set(eval_dataframe)
                      [] name = "data/dev.md" ->
                            create_rasa_dev_set(dev_dataframe)
                      [] name = "data/labels.json" -> train_label_list]
    /\ loaded' = load_data(train_dataframe, eval_dataframe, train_label_list)
    /\ dpc' = IF loaded'.exc # None THEN "failed" ELSE "ready"
    /\ UNCHANGED <<df_train_set, train_label_list, train_dataframe,
                   eval_dataframe_first, eval_dataframe, dev_dataframe>>

DataNext ==
    \/ SplitTrain
    \/ SplitTrainRaises
    \/ SplitEval
    \/ SplitEvalRaises
    \/ PersistAndLoad

DataSpec == DataInit /\ [][DataNext]_vars

\* ---------------------------------------------- helper functions: model

\* Bounds on the arguments of the helper functions.
MaxRecords == 3

MaxLabels == 2

FnLabels == {"a", "b", "c"}

FnTexts == {"x", "y", "z"}

\* Lists of pairwise distinct labels, as unique() returns them.
LabelLists ==
    {l \in UNION {[1..n -> FnLabels] : n \in 0..MaxLabels} :
        \A i, j \in DOMAIN l : l[i] = l[j] => i = j}

RowLists == UNION {[1..n -> FnLabels \X FnTexts] : n \in 0..MaxRecords}

FnInit ==
    /\ LoopIdle
    /\ DataIdle
    /\ called = "none"
    /\ arg_rows \in RowLists
    /\ arg_labels \in LabelLists
    /\ ret = <<>>

\* _prepare_partition(arg_rows, preprocess=False, label_list=arg_labels)
CallPreparePartition ==
    /\ UNCHANGED <<loopVars, dataVars>>
    /\ called = "none"
    /\ called' = "_prepare_partition"
    /\ ret' = _prepare_partition(arg_rows, arg_labels)
    /\ UNCHANGED <<arg_rows, arg_labels>>

\* find_max_prob_cat on the dict _prepare_partition builds for the first row,
\* as evaluate_multiclass calls it for the true label (line 288).
CallFindMaxProbCat ==
    /\ UNCHANGED <<loopVars, dataVars>>
    /\ called = "none"
    /\ arg_rows # <<>>
    /\ arg_labels # <<>>
    /\ called' = "find_max_prob_cat"
    /\ ret' = [exc |-> None,
               label |-> find_max_prob_cat(arg_labels,
                                           OneHot(arg_rows[1][1], arg_labels))]
    /\ UNCHANGED <<arg_rows, arg_labels>>

CallCreateRasaTrainingSet ==
    /\ UNCHANGED <<loopVars, dataVars>>
    /\ called = "none"
    /\ called' = "create_rasa_training_set"
    /\ ret' = [exc |-> None, written |-> create_rasa_training_set(arg_rows)]
    /\ UNCHANGED <<arg_rows, arg_labels>>

CallCreateRasaTestSet ==
    /\ UNCHANGED <<loopVars, dataVars>>
    /\ called = "none"
    /\ called' = "create_rasa_test_set"
    /\ ret' = [exc |-> None, written |-> create_rasa_test_set(arg_rows)]
    /\ UNCHANGED <<arg_rows, arg_labels>>

CallCreateRasaDevSet ==
    /\ UNCHANGED <<loopVars, dataVars>>
    /\ called = "none"
    /\ called' = "create_rasa_dev_set"
    /\ ret' = [exc |-> None, written |-> create_rasa_dev_set(arg_rows)]
    /\ UNCHANGED <<arg_rows, arg_labels>>

FnNext ==
    \/ CallPreparePartition
    \/ CallFindMaxProbCat
    \/ CallCreateRasaTrainingSet
    \/ CallCreateRasaTestSet
    \/ CallCreateRasaDevSet

FnSpec == FnInit /\ [][FnNext]_vars

\* --------------------------------------------------- training loop: claims

InLoop == pc = "batch"

\* The largest accuracy among the first n entries of rs.
RECURSIVE MaxAcc(_, _)
MaxAcc(rs, n) ==
    IF n = 0 THEN -1
    ELSE LET m == MaxAcc(rs, n - 1)
         IN  IF rs[n][1] > m THEN rs[n][1] ELSE m

\* Index in results of the checkpoint the termination check calls best.
BestIdx == CHOOSE i \in DOMAIN results : results[i] = max(results)

\* The accuracies peak at the checkpoint of step 300 and stay flat afterwards.
PeakAt300ThenFlat ==
    /\ Len(results) >= 3
    /\ results[3][2] = 300
    /\ \A i \in 1..2 : results[i][1] < results[3][1]
    /\ \A i \in 4..Len(results) :
          /\ results[i][1] <= results[3][1]
          /\ results[i][1] = results[4][1]

\* C1 (as claimed): with eval_every = 100 and patience = 3, when the recorded
\* accuracies peak at step 300 and stay flat afterwards, the loop stops
\* exactly at step 600: it has not stopped at another step and is not still
\* running after step 600.
C1_StopsAtStep600 ==
    PeakAt300ThenFlat =>
        /\ pc = "report" => step = 300 + patience * eval_every
        /\ InLoop => step <= 300 + patience * eval_every

\* C2 (as claimed): when the loop has stopped, at least patience * eval_every
\* optimizer steps were applied after the evaluation of the best checkpoint.
C2_GraceOptimizerSteps ==
    pc = "report" =>
        nupdates - evaluated_at[BestIdx] >= patience * eval_every

\* C2 (amended): when the loop has stopped, the step counter exceeds the step
\* of the best checkpoint (of every checkpoint of maximal accuracy) by at
\* least patience * eval_every, and at least patience * eval_every - 1
\* optimizer steps were applied after the evaluation that produced it.
C2_GraceStepCounter ==
    pc = "report" =>
        \A i \in DOMAIN results :
            results[i][1] = MaxAcc(results, Len(results)) =>
                /\ step - results[i][2] >= patience * eval_every
                /\ nupdates - evaluated_at[i] >= patience * eval_every - 1

C2_Witness ==
    /\ pc = "report"
    /\ nupdates - evaluated_at[BestIdx] = patience * eval_every - 1

\* Step of the first recorded checkpoint that has the maximal accuracy.
FirstMaxStep ==
    LET i == CHOOSE k \in DOMAIN results :
                /\ results[k][1] = MaxAcc(results, Len(results))
                /\ \A j \in 1..(k - 1) : results[j][1] < results[k][1]
    IN  results[i][2]

\* C3 (as claimed): when the termination check runs, its best checkpoint is
\* the recorded one of maximal accuracy, the first of them on a tie.
C3_BestIsFirstMaximum ==
    (pc = "batch" /\ batches_left = 0 /\ results # <<>>) =>
        /\ max(results)[1] = MaxAcc(results, Len(results))
        /\ max(results)[2] = FirstMaxStep

\* C6: the model is saved only with an output_dir and only after the loop
\* left through the patience condition; never during the loop, never after an
\* exception of a batch update or an evaluation, never without output_dir.
C6_SaveOnlyAfterPatienceStop ==
    /\ saved =>
          /\ output_dir # None
          /\ pc = "done"
          /\ results # <<>>
          /\ (nupdates - max(results)[2]) \div eval_every >= patience
    /\ (InLoop \/ pc = "crashed" \/ output_dir = None) => ~saved

C6_Witness == saved /\ pc = "done" /\ output_dir = "out" /\ Len(results) >= patience

\* C9, state part: the i-th recorded result carries step i * eval_every, and
\* inside the loop one result exists for every multiple of eval_every passed.
C9_HistoryShape ==
    /\ \A i \in DOMAIN results : results[i][2] = i * eval_every
    /\ InLoop =>
          Len(results) = (IF step = 0 THEN 0 ELSE (step - 1) \div eval_every)

\* C9, step part: a step leaves results unchanged or appends one entry.
C9_AppendOnly ==
    \/ results' = results
    \/ /\ Len(results') = Len(results) + 1
       /\ SubSeq(results', 1, Len(results)) = results

\* C9: one CheckpointResult is appended every eval_every steps, the i-th
\* carries step i * eval_every, and the history is append-only.
C9_CheckpointHistory == []C9_HistoryShape /\ [][C9_AppendOnly]_vars

C9_Witness == pc = "batch" /\ Len(results) >= 3 /\ step = 3 * eval_every + 1

\* The largest number of batches of an epoch among the inputs.
MaxBatches ==
    CHOOSE m \in {minibatch(n, batch_size) : n \in TrainSizes} :
        \A n \in TrainSizes : minibatch(n, batch_size) <= m

\* Checkpoints after this one can stop improving and leave the loop room to
\* stop below MaxStep.
SettleBy == (MaxStep - patience * eval_every - MaxBatches + 1) \div eval_every

\* The last recorded accuracy is below the maximum recorded before it.
NoImprovement(i) == results[i][1] < MaxAcc(results, i - 1)

\* C10: when every checkpoint after the SettleBy-th stays below the maximal
\* accuracy recorded before it (and no call raises), the loop eventually
\* stops; it stops only at the end of an epoch at which
\* (step - best_step) // eval_every >= patience, and at the first such.
C10_Termination ==
    /\ ([](Len(results) > SettleBy => NoImprovement(Len(results)))
          /\ [](pc # "crashed"))
       => <>(pc = "report")
    /\ [][(pc # "report" /\ pc' = "report") =>
            /\ pc = "batch" /\ batches_left = 0 /\ results # <<>>
            /\ (step - max(results)[2]) \div eval_every >= patience]_vars
    /\ [][(/\ pc = "batch" /\ batches_left = 0 /\ results # <<>>
           /\ (step - max(results)[2]) \div eval_every >= patience)
          => pc' = "report"]_vars

C10_Witness ==
    /\ pc = "report"
    /\ Len(results) >= SettleBy + patience
    /\ \A i \in (SettleBy + 1)..Len(results) : NoImprovement(i)

\* ------------------------------------------------ data preparation: claims

\* The one-hot dicts load_data returned, each with the row it was built for.
GroundTruths ==
    {<<train_dataframe[i], loaded.train[2][i]>> : i \in DOMAIN train_dataframe}
        \cup {<<eval_dataframe[i], loaded.eval[2][i]>> : i \in DOMAIN eval_dataframe}

\* C4: every ground-truth dict built for a row of the train or the eval
\* partition has exactly one key per label of the label list (k keys), value
\* 1.0 at the label of the row and 0.0 at every other key, so the values sum
\* to 1.0; one dict is built per row.
C4_GroundTruthOneHot ==
    dpc = "ready" =>
        /\ Len(loaded.train[2]) = Len(train_dataframe)
        /\ Len(loaded.eval[2]) = Len(eval_dataframe)
        /\ \A g \in GroundTruths :
              LET y == g[1][1]
                  cat == g[2]
              IN  /\ DOMAIN cat = Range(train_label_list)
                  /\ Cardinality(DOMAIN cat) = Len(train_label_list)
                  /\ y \in DOMAIN cat
                  /\ {l \in DOMAIN cat : cat[l] = 1} = {y}
                  /\ \A l \in DOMAIN cat \ {y} : cat[l] = 0
                  /\ SumOver(cat, DOMAIN cat) = 1

C4_Witness ==
    /\ dpc = "ready"
    /\ Len(train_label_list) = 2
    /\ \E g \in GroundTruths : g[1][1] = train_label_list[2] /\ g[2][g[1][1]] = 1

\* C7, state part: the label list is the list of the distinct labels of the
\* train partition, it is what data/labels.json holds and it is the key set of
\* every one-hot dict.
C7_LabelSetState ==
    /\ dpc \in {"split_eval", "persist", "ready"} =>
          /\ Range(train_label_list) = Classes(train_dataframe)
          /\ Len(train_label_list) = Cardinality(Classes(train_dataframe))
    /\ dpc = "ready" =>
          /\ files["data/labels.json"] = train_label_list
          /\ \A g \in GroundTruths : DOMAIN g[2] = Classes(train_dataframe)

\* C7: the label set written to data/labels.json and used as the key set of
\* the one-hot dicts is the set of unique labels of the train partition, and
\* the label list never changes once computed.
C7_LabelSetIsTrainLabels ==
    []C7_LabelSetState /\ [][train_label_list' = train_label_list]_vars

C7_Witness == dpc = "ready" /\ Cardinality(Classes(train_dataframe)) = 2

\* ------------------------------------------------ helper functions: claims

UnknownLabelGiven ==
    \E i \in DOMAIN arg_rows : arg_rows[i][1] \notin Range(arg_labels)

\* C5 (as claimed): _prepare_partition given a row whose label is absent from
\* the label list fails with UnknownLabelError.
C5_UnknownLabelRaises ==
    (called = "_prepare_partition" /\ UnknownLabelGiven) =>
        ret.exc = "UnknownLabelError"

\* C8: the Markdown document of a list of rows (labels and texts without line
\* breaks, one written line each) has one header line per
\* distinct label, the headers in the order in which the labels first occur,
\* each followed by one bullet line per row of that label in row order, and
\* nothing else.
C8_MarkdownExport ==
    called \in {"create_rasa_training_set", "create_rasa_test_set",
                "create_rasa_dev_set"} =>
        LET doc == ret.written
            labs == {arg_rows[i][1] : i \in DOMAIN arg_rows}
            Header(l) == "## intent:" \o l
            FirstRow(l) ==
                CHOOSE i \in DOMAIN arg_rows :
                    /\ arg_rows[i][1] = l
                    /\ \A j \in 1..(i - 1) : arg_rows[j][1] # l
            HeaderAt(l) == CHOOSE i \in DOMAIN doc : doc[i] = Header(l)
            RowsOf(l) ==
                LET Has(r) == r[1] = l IN SelectSeq(arg_rows, Has)
        IN  /\ Len(doc) = Cardinality(labs) + Len(arg_rows)
            /\ \A l \in labs :
                  Cardinality({i \in DOMAIN doc : doc[i] = Header(l)}) = 1
            /\ \A l, m \in labs :
                  FirstRow(l) < FirstRow(m) => HeaderAt(l) < HeaderAt(m)
            /\ \A l \in labs :
                  \A j \in DOMAIN RowsOf(l) :
                      /\ HeaderAt(l) + j <= Len(doc)
                      /\ doc[HeaderAt(l) + j] = "- " \o RowsOf(l)[j][2]

C8_Witness ==
    /\ called = "create_rasa_test_set"
    /\ arg_rows = << <<"a", "x">>, <<"b", "y">>, <<"a", "z">> >>
    /\ ret.written = <<"## intent:a", "- x", "- z", "## intent:b", "- y">>

====
